---- MODULE Spec2Model ----
(***************************************************************************)
(* Model of amazon_advertising_api/advertising_api.py: the AdvertisingApi  *)
(* client (construction, token refresh, the shared request routine         *)
(* _operation, the report/snapshot download) as a state machine whose      *)
(* actions are the public methods a caller can invoke.                     *)
(*                                                                         *)
(* Python strings are sequences of lexemes: a lexeme is one character, or  *)
(* a whole literal/phrase that the code only ever compares as a unit.      *)
(* A JSON object is a function from its keys to texts.  A call of a method *)
(* ends in an outcome: it returns an envelope, returns None, returns a     *)
(* string, or raises.  Every server answer is an input chosen by the       *)
(* environment, so every operator that performs HTTP is set-valued: it     *)
(* yields one result per possible answer.                                  *)
(***************************************************************************)
EXTENDS Integers, Sequences, FiniteSets, TLC

\* How many times over a token handed to the client may be URL-encoded.
MaxEncodings == 2

----------------------------------------------------------------------------
\* Python values

\* Every Python value is tagged with its type: None, a string, a decoded
\* JSON object (dict).
None == [t |-> "none"]
Str(text) == [t |-> "str", v |-> text]
Json(obj) == [t |-> "json", v |-> obj]

Return(envelope) == [kind |-> "envelope", value |-> envelope]
ReturnNone == [kind |-> "none"]
ReturnStr(text) == [kind |-> "str", value |-> text]
Raise(exception) == [kind |-> "raise", exc |-> exception]

----------------------------------------------------------------------------
\* urllib.parse.unquote, as used on the stored tokens

HexDigits ==
    {"0", "1", "2", "3", "4", "5", "6", "7", "8", "9",
     "A", "B", "C", "D", "E", "F", "a", "b", "c", "d", "e", "f"}

\* The character a %XX escape stands for (the escapes the model's tokens use).
ByteChar(hi, lo) ==
    CASE hi = "7" /\ lo = "C" -> "|"
      [] hi = "2" /\ lo = "5" -> "%"
      [] hi = "4" /\ lo = "1" -> "A"
      [] OTHER -> "?"

RECURSIVE unquote(_)
unquote(string) ==
    IF string = <<>> THEN <<>>
    ELSE IF /\ Len(string) >= 3
            /\ string[1] = "%"
            /\ string[2] \in HexDigits
            /\ string[3] \in HexDigits
         THEN <<ByteChar(string[2], string[3])>>
                  \o unquote(SubSeq(string, 4, Len(string)))
         ELSE <<string[1]>> \o unquote(Tail(string))

----------------------------------------------------------------------------
\* Inputs

\* URL-encoding as the caller applies it to a token before handing it over:
\* letters stay, "|" and "%" become escapes.
RECURSIVE quote(_)
quote(string) ==
    IF string = <<>> THEN <<>>
    ELSE (CASE string[1] = "|" -> <<"%", "7", "C">>
            [] string[1] = "%" -> <<"%", "2", "5">>
            [] OTHER -> <<string[1]>>) \o quote(Tail(string))

RECURSIVE QuoteTimes(_, _)
QuoteTimes(string, n) ==
    IF n = 0 THEN string ELSE quote(QuoteTimes(string, n - 1))

\* Token values a caller may hand to the constructor or the setter: a token
\* of the form the service issues ("Atza|..."), URL-encoded 0..MaxEncodings
\* times.
CallerTokens == {QuoteTimes(<<"A", "|">>, n) : n \in 0..MaxEncodings}

\* Access tokens the token-exchange host may issue.
IssuedTokens == {<<"T", "|">>, <<"T", "%", "7", "C">>}

\* Answers of the token-exchange host: 200 with an access_token field, 200
\* without any mention of access_token, 200 whose text mentions access_token
\* but has no such field, an HTTP error, and a 307 redirect.
TokenResponses ==
    {[code |-> 200, msg |-> <<"OK">>, body |-> [access_token |-> t]] :
        t \in IssuedTokens}
    \cup {[code |-> 200, msg |-> <<"OK">>,
           body |-> [error |-> <<"invalid_grant">>]],
          [code |-> 200, msg |-> <<"OK">>,
           body |-> [error |-> <<"access_token", " ", "expired">>]],
          [code |-> 400, msg |-> <<"Bad Request">>,
           body |-> [error |-> <<"invalid_grant">>]],
          [code |-> 307, msg |-> <<"Temporary Redirect">>,
           body |-> [error |-> <<"moved">>],
           headers |-> [Location |-> <<"M">>]]}

\* Interfaces (URL paths) the public methods build.
ReportInterface == "reports/1"
SnapshotInterface == "snapshots/1"
StatusInterfaces == {ReportInterface, SnapshotInterface}

\* Decoded bodies of 2xx answers of the API host, by interface.
SuccessBodies(interface) ==
    IF interface \in StatusInterfaces
    THEN {[status |-> <<"SUCCESS">>, location |-> <<"L">>],
          [status |-> <<"IN_PROGRESS">>]}
    ELSE {[campaignId |-> <<"1">>]}

\* Error answers of the API host: the recoverable 401, a 401 with another
\* detail, an error with a details field, an error body without one, and a
\* 307 redirect.
ErrorResponses ==
    {[code |-> 401, msg |-> <<"Unauthorized">>,
      body |-> [details |-> <<"Authentication failed">>]],
     [code |-> 401, msg |-> <<"Unauthorized">>,
      body |-> [details |-> <<"Scope header is missing">>]],
     [code |-> 404, msg |-> <<"Not Found">>,
      body |-> [details |-> <<"Entity not found">>]],
     [code |-> 502, msg |-> <<"Bad Gateway">>,
      body |-> [message |-> <<"upstream">>]],
     [code |-> 307, msg |-> <<"Temporary Redirect">>,
      body |-> [details |-> <<"moved">>],
      headers |-> [Location |-> <<"M">>]]}

\* Answers of the host a redirect of the API host points to.
RedirectResponses(interface) ==
    {[code |-> 200, msg |-> <<"OK">>, body |-> b] : b \in SuccessBodies(interface)}
    \cup {[code |-> 404, msg |-> <<"Not Found">>,
           body |-> [details |-> <<"Entity not found">>]]}

ApiResponses(interface) ==
    {[code |-> 200, msg |-> <<"OK">>, body |-> b] : b \in SuccessBodies(interface)}
    \cup ErrorResponses

\* Parameter sets a caller passes to a resource operation.
CallerParams == {None, Json([count |-> <<"1", "0">>])}

----------------------------------------------------------------------------
\* Transport

\* urlopen returns for a 2xx status and raises HTTPError otherwise.
IsSuccessStatus(code) == 200 <= code /\ code < 300

\* `needle in response` on the text of a JSON body: the needle occurs as a key
\* or inside a value.
InText(needle, body) ==
    \E k \in DOMAIN body :
        k = needle \/ \E i \in 1..Len(body[k]) : body[k][i] = needle

\* The machine a call runs on: the client's session fields, the installed
\* opener, and the trace of the call so far.  The trace records every HTTP
\* exchange (request and answer) and every entry into do_refresh_token.
urlopen(m, req, resp) ==
    [m EXCEPT !.trace = Append(@, [ev |-> "http", req |-> req, resp |-> resp])]

Enter(m, name) == [m EXCEPT !.trace = Append(@, [ev |-> name])]

\* What urlopen hands to its caller for the answer f to req, under the opener
\* that is installed.  The default opener follows a 307 of a GET that names a
\* Location, re-sending the request with its headers to the target, and
\* treats any other 307 as an HTTP error; the opener built around
\* NoRedirectHandler hands every 307 back as a dict.  `targets` are the
\* answers the redirect target may give.
opener_open(m, req, f, targets) ==
    LET m1 == urlopen(m, req, f)
    IN IF f.code # 307
       THEN {[m |-> m1, dict |-> FALSE, f |-> f]}
       ELSE IF m.opener = "NoRedirectHandler"
       THEN {[m |-> m1, dict |-> TRUE, f |-> f]}
       ELSE IF req.method = "GET" /\ "Location" \in DOMAIN f.headers
       THEN {[m |-> urlopen(m1, [req EXCEPT !.to = "redirect",
                                            !.host = Str(f.headers.Location)], g),
              dict |-> FALSE,
              f |-> g] : g \in targets}
       ELSE {[m |-> m1, dict |-> FALSE, f |-> f]}

Result(m, out) == [m |-> m, out |-> out]

----------------------------------------------------------------------------
\* AdvertisingApi.do_refresh_token

refresh_token_is_empty(m) == m.refresh_token = None

refresh_request(m) ==
    [to |-> "token",
     host |-> m.token_url,
     method |-> "POST",
     grant_type |-> "refresh_token",
     refresh_token |-> m.refresh_token]

refresh_response(m, f) ==
    IF IsSuccessStatus(f.code)
    THEN IF InText("access_token", f.body)
         THEN IF "access_token" \in DOMAIN f.body
              THEN LET m2 == [m EXCEPT !.access_token = Str(f.body.access_token)]
                   IN Result(m2, Return([success |-> TRUE,
                                         code |-> f.code,
                                         response |-> m2.access_token]))
              ELSE Result(m, Raise("KeyError"))
         ELSE Result(m, Return([success |-> FALSE,
                                code |-> f.code,
                                response |-> Str(<<"access_token not in response.">>)]))
    ELSE Result(m, Return([success |-> FALSE,
                           code |-> f.code,
                           response |-> Str(f.msg)]))

\* f.read() on the dict NoRedirectHandler hands back raises.
refresh_exchange(m, f) ==
    {IF d.dict
     THEN Result(d.m, Raise("AttributeError"))
     ELSE refresh_response(d.m, d.f) :
         d \in opener_open(m, refresh_request(m), f, {})}

\* Faulty variant of do_refresh_token: the stored tokens are URL-decoded before the
\* refresh token is tested for None.
do_refresh_token_decode_first(m) ==
    LET m0 == Enter(m, "do_refresh_token")
    IN IF m0.access_token.t # "str"
       THEN {Result(m0, Raise("TypeError"))}
       ELSE LET m1 == [m0 EXCEPT !.access_token = Str(unquote(@.v))]
            IN IF refresh_token_is_empty(m1)
               THEN {Result(m1, Return([success |-> FALSE,
                                        code |-> 0,
                                        response |-> Str(<<"refresh_token is empty.">>)]))}
               ELSE LET m2 == [m1 EXCEPT !.refresh_token = Str(unquote(@.v))]
                    IN UNION {refresh_exchange(m2, f) : f \in TokenResponses}

\* unquote(None) raises TypeError, before anything is stored.
do_refresh_token(m) ==
    LET m0 == Enter(m, "do_refresh_token")
    IN IF refresh_token_is_empty(m0)
       THEN {Result(m0, Return([success |-> FALSE,
                                code |-> 0,
                                response |-> Str(<<"refresh_token is empty.">>)]))}
       ELSE IF m0.access_token.t # "str"
       THEN {Result(m0, Raise("TypeError"))}
       ELSE LET m1 == [m0 EXCEPT !.access_token = Str(unquote(@.v)),
                                 !.refresh_token = Str(unquote(@.v))]
            IN UNION {refresh_exchange(m1, f) : f \in TokenResponses}

----------------------------------------------------------------------------
\* AdvertisingApi._operation

\* Faulty variant of operation_headers: the scope header is attached whenever
\* a scope is set, also an empty one (as _download does).
operation_headers_empty_scope(m) ==
    [Authorization |-> m.access_token,
     ClientId |-> Str(<<"client_id">>),
     Scope |-> m.profile_id]

\* Faulty variant of operation_headers: the bearer token is URL-decoded on
\* its way into the header.
operation_headers_decoded_token(m) ==
    [Authorization |-> IF m.access_token = None
                       THEN None
                       ELSE Str(unquote(m.access_token.v)),
     ClientId |-> Str(<<"client_id">>),
     Scope |-> IF m.profile_id # None /\ m.profile_id # Str(<<>>)
               THEN m.profile_id
               ELSE None]

\* The headers of a resource request: the bearer token and, when a scope is
\* set and not empty, the scope header.
operation_headers(m) ==
    [Authorization |-> m.access_token,
     ClientId |-> Str(<<"client_id">>),
     Scope |-> IF m.profile_id # None /\ m.profile_id # Str(<<>>)
               THEN m.profile_id
               ELSE None]

\* Faulty variant of operation_request: the parameters also go into the query
\* string when the verb is not GET.
operation_request_query_always(m, interface, params, method) ==
    [to |-> "api",
     host |-> m.endpoint,
     method |-> method,
     interface |-> interface,
     query |-> IF params # None
               THEN [enc |-> "urlencode", of |-> params.v]
               ELSE [enc |-> "none"],
     data |-> IF method # "GET" /\ params # None
              THEN [enc |-> "json", of |-> params.v]
              ELSE [enc |-> "none"],
     headers |-> operation_headers(m)]

\* GET puts the parameters into the query string, every other verb into a
\* JSON body.
operation_request(m, interface, params, method) ==
    [to |-> "api",
     host |-> m.endpoint,
     method |-> method,
     interface |-> interface,
     query |-> IF method = "GET" /\ params # None
               THEN [enc |-> "urlencode", of |-> params.v]
               ELSE [enc |-> "none"],
     data |-> IF method # "GET" /\ params # None
              THEN [enc |-> "json", of |-> params.v]
              ELSE [enc |-> "none"],
     headers |-> operation_headers(m)]

\* The condition of the one re-authentication retry.
is_recoverable(code, detail, auto_refresh) ==
    code = 401 /\ detail = <<"Authentication failed">> /\ auto_refresh

access_token_is_empty(m) == m.access_token = None

RECURSIVE _operation(_, _, _, _, _)
_operation(m, interface, params, method, auto_refresh) ==
    LET \* the request, its answer f, and what the code does with the answer
        \* f.code on the dict NoRedirectHandler hands back raises
        handle(m1, dict, f) ==
            IF dict
            THEN {Result(m1, Raise("AttributeError"))}
            ELSE IF IsSuccessStatus(f.code)
            THEN {Result(m1, Return([success |-> TRUE,
                                     code |-> f.code,
                                     response |-> Json(f.body)]))}
            ELSE IF "details" \notin DOMAIN f.body
            THEN {Result(m1, Raise("KeyError"))}
            ELSE IF is_recoverable(f.code, f.body.details, auto_refresh)
            THEN UNION {IF r.out.kind = "raise"
                        THEN {r}
                        ELSE _operation(r.m, interface, params, method, FALSE) :
                            r \in do_refresh_token(m1)}
            ELSE {Result(m1, Return([success |-> FALSE,
                                     code |-> f.code,
                                     response |-> Str(f.msg),
                                     detail |-> Str(f.body.details)]))}
        exchange(m0, f) ==
            UNION {handle(d.m, d.dict, d.f) :
                       d \in opener_open(m0,
                                         operation_request(m0, interface, params, method),
                                         f, RedirectResponses(interface))}
        send(m0) == UNION {exchange(m0, f) : f \in ApiResponses(interface)}
    IN IF access_token_is_empty(m)
       THEN UNION {IF r.out.kind = "raise"
                   THEN {r}
                   ELSE IF r.out.value.success = FALSE
                   THEN {Result(r.m, Return([success |-> FALSE,
                                             code |-> 0,
                                             response |-> Str(<<"access_token is empty.">>)]))}
                   ELSE send(r.m) :
                       r \in do_refresh_token(m)}
       ELSE send(m)

----------------------------------------------------------------------------
\* AdvertisingApi._download and NoRedirectHandler

\* Answers to the authorised request for the report location: a 307 with a
\* Location, with an empty one, without one; a 200; an HTTP error.
LocationResponses ==
    {[code |-> 307, msg |-> <<"Temporary Redirect">>, headers |-> [Location |-> <<"S">>]],
     [code |-> 307, msg |-> <<"Temporary Redirect">>, headers |-> [Location |-> <<>>]],
     [code |-> 307, msg |-> <<"Temporary Redirect">>, headers |-> [Server |-> <<"x">>]],
     [code |-> 200, msg |-> <<"OK">>, headers |-> [Server |-> <<"x">>]],
     [code |-> 403, msg |-> <<"Forbidden">>, headers |-> [Server |-> <<"x">>]]}

\* Answers of the pre-signed storage URL: a gzip-compressed JSON document, a
\* JSON document that is not compressed, an HTTP error.
StorageResponses ==
    {[code |-> 200, msg |-> <<"OK">>, gzip |-> TRUE, doc |-> [rows |-> <<"r">>]],
     [code |-> 200, msg |-> <<"OK">>, gzip |-> FALSE, doc |-> [rows |-> <<"r">>]],
     [code |-> 403, msg |-> <<"Forbidden">>, gzip |-> FALSE, doc |-> [rows |-> <<>>]]}

\* NoRedirectHandler.http_response: a 307 becomes a dict holding the Location
\* header (None without one); any other answer takes the default processing.
http_response(f) ==
    IF f.code = 307
    THEN IF "Location" \in DOMAIN f.headers
         THEN [dict |-> TRUE, code |-> 307, location |-> Str(f.headers.Location)]
         ELSE [dict |-> TRUE, code |-> f.code, location |-> None]
    ELSE [dict |-> FALSE, code |-> f.code]

\* Faulty variant of download_headers: the scope header is left out.
download_headers_no_scope(m) ==
    [Authorization |-> m.access_token,
     ClientId |-> Str(<<"client_id">>),
     Scope |-> None]

download_headers(m) ==
    [Authorization |-> m.access_token,
     ClientId |-> Str(<<"client_id">>),
     Scope |-> m.profile_id]

\* The entry into _download with its argument, recorded in the trace.
EnterDownload(m, location) ==
    [m EXCEPT !.trace = Append(@, [ev |-> "_download", location |-> location])]

_download(m, location) ==
    IF m.profile_id = None
    THEN {Result(EnterDownload(m, location), Raise("ValueError"))}
    ELSE LET m1 == [EnterDownload(m, location) EXCEPT !.opener = "NoRedirectHandler"]
             req == [to |-> "location", url |-> location,
                     headers |-> download_headers(m1)]
             fetch(m2, response) ==
                 LET req2 == [to |-> "storage", url |-> response.location.v,
                              headers |-> [Authorization |-> None,
                                           ClientId |-> None,
                                           Scope |-> None]]
                 IN {LET m3 == urlopen(m2, req2, g)
                     IN IF ~IsSuccessStatus(g.code)
                        THEN Result(m3, Return([success |-> FALSE,
                                                code |-> g.code,
                                                response |-> Str(g.msg)]))
                        ELSE IF ~g.gzip
                        THEN Result(m3, Raise("BadGzipFile"))
                        ELSE Result(m3, Return([success |-> TRUE,
                                                code |-> g.code,
                                                response |-> Json([status |-> <<"SUCCESS">>,
                                                                   data |-> g.doc])])) :
                        g \in StorageResponses}
             first(f) ==
                 LET m2 == urlopen(m1, req, f)
                     response == http_response(f)
                 IN IF response.dict
                    THEN IF response.location # None
                         THEN IF response.location.v = <<>>
                              THEN {Result(m2, Raise("ValueError"))}
                              ELSE fetch(m2, response)
                         ELSE {Result(m2, Raise("UnboundLocalError"))}
                    ELSE IF IsSuccessStatus(f.code)
                    THEN {Result(m2, Raise("UnboundLocalError"))}
                    ELSE {Result(m2, Return([success |-> FALSE,
                                             code |-> f.code,
                                             response |-> Str(f.msg)]))}
         IN UNION {first(f) : f \in LocationResponses}

----------------------------------------------------------------------------
\* Report and snapshot retrieval

\* res['response']['status'] on the envelope of the status poll: indexing the
\* message string of a failure envelope with a key raises.
get_report(m) ==
    UNION {IF r.out.kind = "raise"
           THEN {r}
           ELSE LET res == r.out.value
                IN IF res.response.t # "json"
                   THEN {Result(r.m, Raise("TypeError"))}
                   ELSE IF "status" \notin DOMAIN res.response.v
                   THEN {Result(r.m, Raise("KeyError"))}
                   ELSE IF res.response.v.status = <<"SUCCESS">>
                   THEN _download(r.m, Str(res.response.v.location))
                   ELSE {r} :
               r \in _operation(m, ReportInterface, None, "GET", TRUE)}

\* json.loads(res['response']): the response of a success envelope is already
\* decoded (a dict), the response of a failure envelope is a reason phrase,
\* which is no JSON document.
json_loads_raises(value) ==
    IF value.t = "str" THEN "JSONDecodeError" ELSE "TypeError"

get_snapshot(m) ==
    UNION {IF r.out.kind = "raise"
           THEN {r}
           ELSE {Result(r.m, Raise(json_loads_raises(r.out.value.response)))} :
               r \in _operation(m, SnapshotInterface, None, "GET", TRUE)}

----------------------------------------------------------------------------
\* Snapshot and report requests, product-ad archiving

request_snapshot(m, record_type, snapshot_id, data) ==
    IF record_type # None
    THEN _operation(m, "campaigns/snapshot", data, "POST", TRUE)
    ELSE IF snapshot_id # None
    THEN _operation(m, SnapshotInterface, data, "GET", TRUE)
    ELSE {Result(m, ReturnNone)}

request_report(m, record_type, report_id, data) ==
    IF record_type # None
    THEN _operation(m, "sp/campaigns/report", data, "POST", TRUE)
    ELSE IF report_id # None
    THEN _operation(m, ReportInterface, None, "GET", TRUE)
    ELSE {Result(m, ReturnNone)}

\* The body of archive_product_ads is `pass`.
archive_product_ads(m) == {Result(m, ReturnNone)}

----------------------------------------------------------------------------
\* The client as a state machine

VARIABLES
    client,         \* "absent" before construction, "live", or "raised"
    access_token,   \* self._access_token
    refresh_token,  \* self.refresh_token
    profile_id,     \* self.profile_id
    endpoint,       \* self.endpoint
    token_url,      \* self.token_url
    opener,         \* the opener installed in urllib.request (process-wide)
    last,           \* the latest call: its name, the session before it, the
                    \* HTTP exchanges it made, its outcome
    first_refresh,  \* history of the calls before the latest: the refresh
                    \* token submitted on the first refresh, None before it
    retry_spent     \* history of the calls before the latest: one of them
                    \* sent its request twice and still did not succeed

vars == <<client, access_token, refresh_token, profile_id, endpoint, token_url,
          opener, last, first_refresh, retry_spent>>

\* The static endpoint table (regions.py).
regions ==
    [na |-> [prod |-> "advertising-api.amazon.com",
             sandbox |-> "advertising-api-test.amazon.com",
             token_url |-> "api.amazon.com/auth/o2/token"],
     eu |-> [prod |-> "advertising-api-eu.amazon.com",
             sandbox |-> "advertising-api-test.amazon.com",
             token_url |-> "api.amazon.co.uk/auth/o2/token"]]

\* Region codes a caller may pass: two of the table, one unknown.
CallerRegions == {"na", "eu", "zz"}

CallerTokenArgs == {None} \cup {Str(t) : t \in CallerTokens}

\* The session and transport state a method runs on.
Machine ==
    [access_token |-> access_token,
     refresh_token |-> refresh_token,
     profile_id |-> profile_id,
     endpoint |-> endpoint,
     token_url |-> token_url,
     opener |-> opener,
     trace |-> <<>>]

\* The record of a call: the method, its arguments, the session before it,
\* the trace it left, its outcome.
Call(op, args, pre, trace, out) ==
    [op |-> op, args |-> args, pre |-> pre, trace |-> trace, out |-> out]

NoArgs == [none |-> TRUE]

Init ==
    /\ client = "absent"
    /\ access_token = None
    /\ refresh_token = None
    /\ profile_id = None
    /\ endpoint = None
    /\ token_url = None
    /\ opener = "default"
    /\ last = Call("none", NoArgs, Machine, <<>>, ReturnNone)
    /\ first_refresh = None
    /\ retry_spent = FALSE

InitArgs(a, r, region, sandbox) ==
    [access_token |-> a, refresh_token |-> r, region |-> region, sandbox |-> sandbox]

\* Faulty variant of tokens_are_missing: `or` in place of `and`.
tokens_are_missing_either(a, r) == a = None \/ r = None

\* AdvertisingApi.__init__: the check that at least one token is given.
tokens_are_missing(a, r) == a = None /\ r = None

Construct(a, r, region, sandbox) ==
    /\ client = "absent"
    /\ last.op = "none"
    /\ IF tokens_are_missing(a, r)
       THEN /\ client' = "raised"
            /\ last' = Call("__init__", InitArgs(a, r, region, sandbox), Machine, <<>>,
                            Raise("ValueError"))
            /\ UNCHANGED <<access_token, refresh_token, endpoint, token_url>>
       ELSE IF region \in DOMAIN regions
       THEN /\ client' = "live"
            /\ access_token' = a
            /\ refresh_token' = r
            /\ endpoint' = IF sandbox THEN Str(<<regions[region].sandbox>>)
                                      ELSE Str(<<regions[region].prod>>)
            /\ token_url' = Str(<<regions[region].token_url>>)
            /\ last' = Call("__init__", InitArgs(a, r, region, sandbox), Machine, <<>>,
                            ReturnNone)
       ELSE /\ client' = "raised"
            /\ last' = Call("__init__", InitArgs(a, r, region, sandbox), Machine, <<>>,
                            Raise("KeyError"))
            /\ UNCHANGED <<access_token, refresh_token, endpoint, token_url>>
    /\ UNCHANGED <<profile_id, opener, first_refresh, retry_spent>>

\* The HTTP exchanges of a trace with one host, in order.
Exchanges(trace, host) ==
    SelectSeq(trace, LAMBDA e : e.ev = "http" /\ e.req.to = host)

\* An outcome that is a success envelope.
Succeeded(out) == out.kind = "envelope" /\ out.value.success

\* A method call that ran on Machine and ended in result r.
Finish(op, args, r) ==
    /\ access_token' = r.m.access_token
    /\ refresh_token' = r.m.refresh_token
    /\ profile_id' = r.m.profile_id
    /\ opener' = r.m.opener
    /\ last' = Call(op, args, Machine, r.m.trace, r.out)
    /\ UNCHANGED <<client, endpoint, token_url, first_refresh, retry_spent>>

\* The caller takes the outcome of the latest call; the call passes into
\* the history, its record is dropped and the client is ready for the next
\* call.
NoCall == Call("none", NoArgs, Machine, <<>>, ReturnNone)

TakeOutcome ==
    /\ last.op # "none"
    /\ last' = NoCall
    /\ first_refresh' =
           IF first_refresh = None /\ Exchanges(last.trace, "token") # <<>>
           THEN Exchanges(last.trace, "token")[1].req.refresh_token
           ELSE first_refresh
    /\ retry_spent' =
           (retry_spent \/ (/\ Len(Exchanges(last.trace, "api")) = 2
                            /\ ~Succeeded(last.out)))
    /\ UNCHANGED <<client, access_token, refresh_token, profile_id, endpoint,
                   token_url, opener>>

Callable == client = "live" /\ last.op = "none"

SetAccessToken(value) ==
    /\ Callable
    /\ Finish("access_token", [value |-> value],
              Result([Machine EXCEPT !.access_token = value], ReturnNone))

SetProfile(value) ==
    /\ Callable
    /\ Finish("set_profile", [value |-> value],
              Result([Machine EXCEPT !.profile_id = value], ReturnStr(value.v)))

RefreshToken ==
    /\ Callable
    /\ \E r \in do_refresh_token(Machine) : Finish("do_refresh_token", NoArgs, r)

ResourceOperation(method, params) ==
    /\ Callable
    /\ \E r \in _operation(Machine, "sp/campaigns", params, method, TRUE) :
           Finish("resource", [method |-> method, params |-> params], r)

ArchiveProductAds ==
    /\ Callable
    /\ \E r \in archive_product_ads(Machine) : Finish("archive_product_ads", NoArgs, r)

RequestSnapshot(record_type, snapshot_id, data) ==
    /\ Callable
    /\ \E r \in request_snapshot(Machine, record_type, snapshot_id, data) :
           Finish("request_snapshot",
                  [record_type |-> record_type, id |-> snapshot_id, data |-> data], r)

RequestReport(record_type, report_id, data) ==
    /\ Callable
    /\ \E r \in request_report(Machine, record_type, report_id, data) :
           Finish("request_report",
                  [record_type |-> record_type, id |-> report_id, data |-> data], r)

GetReport ==
    /\ Callable
    /\ \E r \in get_report(Machine) : Finish("get_report", NoArgs, r)

GetSnapshot ==
    /\ Callable
    /\ \E r \in get_snapshot(Machine) : Finish("get_snapshot", NoArgs, r)

Methods == {"GET", "POST", "PUT", "DELETE"}
CallerIds == {None, Str(<<"1">>)}
CallerRecordTypes == {None, Str(<<"campaigns">>)}
CallerProfiles == {Str(<<"7">>), Str(<<>>)}

Next ==
    \/ \E a \in CallerTokenArgs, r \in CallerTokenArgs,
          region \in CallerRegions, sandbox \in BOOLEAN :
           Construct(a, r, region, sandbox)
    \/ \E value \in CallerTokenArgs \ {None} : SetAccessToken(value)
    \/ \E value \in CallerProfiles : SetProfile(value)
    \/ RefreshToken
    \/ \E method \in Methods, params \in CallerParams :
           ResourceOperation(method, params)
    \/ ArchiveProductAds
    \/ \E rt \in CallerRecordTypes, id \in CallerIds, data \in CallerParams :
           RequestSnapshot(rt, id, data)
    \/ \E rt \in CallerRecordTypes, id \in CallerIds, data \in CallerParams :
           RequestReport(rt, id, data)
    \/ GetReport
    \/ GetSnapshot
    \/ TakeOutcome

Spec == Init /\ [][Next]_vars

----------------------------------------------------------------------------
\* Reading the record of the latest call

\* Methods that return the result of _operation as it is.
DirectOperations == {"resource", "request_snapshot", "request_report"}

\* Every public resource method.
ResourceOperations ==
    DirectOperations \cup {"archive_product_ads", "get_report", "get_snapshot"}

\* Positions in the trace: requests to a host, entries into do_refresh_token.
Requests(host) ==
    {i \in DOMAIN last.trace :
        last.trace[i].ev = "http" /\ last.trace[i].req.to = host}

Refreshes == {i \in DOMAIN last.trace : last.trace[i].ev = "do_refresh_token"}

First(S) == CHOOSE i \in S : \A j \in S : i <= j

IsAuthenticationFailed(resp) ==
    /\ resp.code = 401
    /\ "details" \in DOMAIN resp.body
    /\ resp.body.details = <<"Authentication failed">>

\* The answer to the first resource request of the call was the recoverable 401.
FirstAnswerRecoverable ==
    /\ Requests("api") # {}
    /\ IsAuthenticationFailed(last.trace[First(Requests("api"))].resp)

ReturnedEnvelope == last.out.kind = "envelope"

ReturnedFailure(code) ==
    /\ ReturnedEnvelope
    /\ last.out.value.success = FALSE
    /\ last.out.value.code = code

SessionUnchanged ==
    /\ access_token = last.pre.access_token
    /\ refresh_token = last.pre.refresh_token
    /\ profile_id = last.pre.profile_id
    /\ endpoint = last.pre.endpoint
    /\ token_url = last.pre.token_url
    /\ opener = last.pre.opener

----------------------------------------------------------------------------
\* Claims

\* C1: a resource operation started with an access token present whose first
\* resource request is answered 401 "Authentication failed" enters token
\* refresh exactly once and sends the resource request exactly twice; if the
\* second answer is again 401 "Authentication failed" the operation returns a
\* failure envelope with code 401.
C1_OneRefreshOneRetry ==
    (/\ last.op \in DirectOperations
     /\ last.pre.access_token # None
     /\ FirstAnswerRecoverable)
    => /\ Cardinality(Refreshes) = 1
       /\ Cardinality(Requests("api")) = 2
       /\ \A i \in Requests("api") \ {First(Requests("api"))} :
              IsAuthenticationFailed(last.trace[i].resp) => ReturnedFailure(401)

\* C2: a resource operation started with the access token absent enters token
\* refresh exactly once before any resource request; it then either sends the
\* resource request (the refresh succeeded) or returns the failure envelope
\* with code 0 without any resource request.
C2_RefreshBeforeRequest ==
    (last.op \in DirectOperations /\ last.pre.access_token = None)
    => /\ Refreshes # {}
       /\ \A i \in Requests("api") :
              Cardinality({j \in Refreshes : j < First(Requests("api"))}) = 1
       /\ Requests("api") = {}
              => Cardinality(Refreshes) = 1 /\ ReturnedFailure(0)

\* C3: when the first resource request of an operation is answered with an
\* HTTP error that is not the recoverable 401, exactly one resource request is
\* sent, token refresh is not entered, and the operation returns the failure
\* envelope carrying the status, the error message and the details field of
\* the error body.
C3_ErrorSurfacedOnce ==
    (/\ last.op \in DirectOperations
     /\ Requests("api") # {}
     /\ ~IsSuccessStatus(last.trace[First(Requests("api"))].resp.code)
     /\ ~FirstAnswerRecoverable)
    => LET f == last.trace[First(Requests("api"))].resp
       IN /\ Cardinality(Requests("api")) = 1
          /\ Refreshes = {}
          /\ ReturnedFailure(f.code)
          /\ last.out.value.response = Str(f.msg)
          /\ "details" \in DOMAIN f.body
                 => /\ "detail" \in DOMAIN last.out.value
                    /\ last.out.value.detail = Str(f.body.details)

\* The answer carries an access_token field.
HasAccessToken(resp) == "access_token" \in DOMAIN resp.body

\* C4: with a refresh token stored, and with or without an access token
\* stored, when the token host answers 200 with access_token T,
\* do_refresh_token stores T as the access token and returns
\* {success: true, code: 200, response: T}.
C4_RefreshStoresToken ==
    (/\ last.op = "do_refresh_token"
     /\ last.pre.refresh_token # None
     /\ \A i \in Requests("token") :
            last.trace[i].resp.code = 200 /\ HasAccessToken(last.trace[i].resp))
    => /\ Requests("token") # {}
       /\ \A i \in Requests("token") :
              LET T == Str(last.trace[i].resp.body.access_token)
              IN /\ access_token = T
                 /\ last.out = Return([success |-> TRUE, code |-> 200, response |-> T])

\* C5: when the token host answers with a success status and a body without
\* an access_token field, do_refresh_token returns {success: false, code: that
\* status, response: "access_token not in response."} and the stored access
\* token is the one stored before the call.
C5_MissingFieldSoftFailure ==
    (/\ last.op = "do_refresh_token"
     /\ \E i \in Requests("token") :
            /\ IsSuccessStatus(last.trace[i].resp.code)
            /\ ~HasAccessToken(last.trace[i].resp))
    => /\ \A i \in Requests("token") :
              last.out = Return([success |-> FALSE,
                                 code |-> last.trace[i].resp.code,
                                 response |-> Str(<<"access_token not in response.">>)])
       /\ access_token = last.pre.access_token

\* C6: a call of do_refresh_token that returns success = false leaves the
\* stored access token as it was; after an HTTP error of the token host the
\* envelope carries the error's status and message.
C6_FailedRefreshKeepsToken ==
    (/\ last.op = "do_refresh_token"
     /\ ReturnedEnvelope
     /\ last.out.value.success = FALSE)
    => /\ access_token = last.pre.access_token
       /\ \A i \in Requests("token") :
              ~IsSuccessStatus(last.trace[i].resp.code)
                  => /\ last.out.value.code = last.trace[i].resp.code
                     /\ last.out.value.response = Str(last.trace[i].resp.msg)

\* C7: with no refresh token stored, do_refresh_token returns a failure
\* envelope with code 0, sends no HTTP request, and leaves the session as it
\* was; and no call of any method on such a client sends a request to the
\* token host.
C7_EmptyRefreshToken ==
    /\ (last.op = "do_refresh_token" /\ last.pre.refresh_token = None)
           => /\ ReturnedFailure(0)
              /\ \A i \in DOMAIN last.trace : last.trace[i].ev # "http"
              /\ SessionUnchanged
    /\ (last.op # "__init__" /\ last.pre.refresh_token = None)
           => Requests("token") = {}

C7_Witness ==
    /\ last.op = "do_refresh_token"
    /\ last.pre.refresh_token = None
    /\ last.pre.access_token = Str(<<"A", "%", "7", "C">>)
    /\ ReturnedFailure(0)

\* C8: with a region of the table, construction raises when both tokens are
\* None and yields a client when at least one is given; a constructed client
\* holds at least one of the two tokens.
C8_ConstructionNeedsToken ==
    /\ (last.op = "__init__" /\ last.args.region \in DOMAIN regions)
           => IF last.args.access_token = None /\ last.args.refresh_token = None
              THEN client = "raised" /\ last.out = Raise("ValueError")
              ELSE /\ client = "live"
                   /\ last.out = ReturnNone
                   /\ access_token = last.args.access_token
                   /\ refresh_token = last.args.refresh_token
    /\ (last.op = "__init__" /\ client = "live")
           => access_token # None \/ refresh_token # None

C8_Witness ==
    /\ last.op = "__init__"
    /\ last.args.region \in DOMAIN regions
    /\ last.args.access_token = None
    /\ last.args.refresh_token = None
    /\ client = "raised"

\* C9: whatever a public resource method returns is an envelope: a mapping
\* with the keys success, code and response.
C9_ReturnsEnvelope ==
    (last.op \in ResourceOperations /\ last.out.kind # "raise")
    => /\ ReturnedEnvelope
       /\ {"success", "code", "response"} \subseteq DOMAIN last.out.value

\* C10: no public resource method ends by raising, whatever the session
\* state and whatever the server answers.
C10_NoExceptionEscapes ==
    last.op \in ResourceOperations => last.out.kind # "raise"

\* C11: every resource request carries the scope header with the scope that
\* is set, and no scope header while the scope is unset or empty; the scope
\* is what set_profile was last given, and no other method changes it.
C11_ScopeHeaderFollowsProfile ==
    /\ \A i \in Requests("api") :
           last.trace[i].req.headers.Scope =
               IF last.pre.profile_id # None /\ last.pre.profile_id # Str(<<>>)
               THEN last.pre.profile_id
               ELSE None
    /\ last.op = "set_profile" => profile_id = last.args.value
    /\ last.op # "set_profile" => profile_id = last.pre.profile_id

C11_Witness ==
    /\ last.op = "resource"
    /\ last.pre.profile_id = Str(<<"7">>)
    /\ Cardinality(Requests("api")) = 2
    /\ \A i \in Requests("api") : last.trace[i].req.headers.Scope = Str(<<"7">>)

NoEncoding == [enc |-> "none"]

\* C12: a resource request with parameters carries them as the query string
\* and no body when the verb is GET, and as the JSON body and no query string
\* when the verb is POST, PUT or DELETE; the request re-sent after a 401 has
\* the verb, path and parameters of the first.
C12_ParametersByVerb ==
    /\ \A i, j \in Requests("api") :
           /\ last.trace[i].req.method = last.trace[j].req.method
           /\ last.trace[i].req.host = last.trace[j].req.host
           /\ last.trace[i].req.interface = last.trace[j].req.interface
           /\ last.trace[i].req.query = last.trace[j].req.query
           /\ last.trace[i].req.data = last.trace[j].req.data
    /\ last.op = "resource"
           => \A i \in Requests("api") :
                  LET req == last.trace[i].req
                  IN /\ req.method = last.args.method
                     /\ req.interface = "sp/campaigns"
                     /\ IF last.args.params = None
                        THEN req.query = NoEncoding /\ req.data = NoEncoding
                        ELSE IF req.method = "GET"
                        THEN /\ req.query = [enc |-> "urlencode",
                                             of |-> last.args.params.v]
                             /\ req.data = NoEncoding
                        ELSE /\ req.data = [enc |-> "json",
                                            of |-> last.args.params.v]
                             /\ req.query = NoEncoding

C12_Witness ==
    /\ last.op = "resource"
    /\ last.args.method = "PUT"
    /\ last.args.params # None
    /\ Cardinality(Requests("api")) = 2
    /\ \A i \in Requests("api") :
           last.trace[i].req.data = [enc |-> "json", of |-> last.args.params.v]

IsPrefix(s, t) == Len(s) <= Len(t) /\ SubSeq(t, 1, Len(s)) = s

\* The status poll of the latest get_report or get_snapshot call: the result
\* of _operation on the session before the call whose exchanges are the ones
\* the call made first.
StatusPoll ==
    CHOOSE r \in _operation(last.pre,
                            IF last.op = "get_report"
                            THEN ReportInterface ELSE SnapshotInterface,
                            None, "GET", TRUE) :
        IsPrefix(r.m.trace, last.trace)

Downloads == {i \in DOMAIN last.trace : last.trace[i].ev = "_download"}

\* C13: in get_report and get_snapshot, when the status poll returned an
\* envelope: the download is started, once and with the location of the
\* polled response, if the envelope is a success whose response has status
\* SUCCESS; otherwise no download is started, nothing more is sent and the
\* envelope of the poll is what the call returns.
C13_DownloadIffPollSucceeded ==
    (last.op \in {"get_report", "get_snapshot"} /\ StatusPoll.out.kind = "envelope")
        => LET res == StatusPoll.out.value
               n == Len(StatusPoll.m.trace)
           IN IF res.success /\ res.response.v.status = <<"SUCCESS">>
              THEN /\ Downloads = {n + 1}
                   /\ last.trace[n + 1].location = Str(res.response.v.location)
              ELSE /\ Downloads = {}
                   /\ last.trace = StatusPoll.m.trace
                   /\ last.out = StatusPoll.out

\* The answer to the authorised request of the download, when one was sent.
LocationAnswer == last.trace[First(Requests("location"))].resp

\* C14: when the download runs with a scope set and the answer to its
\* authorised request names no redirect location, or an empty one, the call
\* returns an envelope with success false whose response has status FAIL and
\* a statusDetails field, and no request is sent to a redirect target.
C14_MissingLocationIsFailEnvelope ==
    (/\ last.op = "get_report"
     /\ last.pre.profile_id # None
     /\ Requests("location") # {}
     /\ \/ IsSuccessStatus(LocationAnswer.code)
        \/ /\ LocationAnswer.code = 307
           /\ "Location" \in DOMAIN LocationAnswer.headers
                  => LocationAnswer.headers.Location = <<>>)
        => /\ Requests("storage") = {}
           /\ last.out.kind = "envelope"
           /\ last.out.value.success = FALSE
           /\ last.out.value.response.t = "json"
           /\ "status" \in DOMAIN last.out.value.response.v
           /\ last.out.value.response.v.status = <<"FAIL">>
           /\ "statusDetails" \in DOMAIN last.out.value.response.v

\* What the download routine of the latest call did after it was entered.
DownloadTrace == SubSeq(last.trace, First(Downloads) + 1, Len(last.trace))

\* The download ran with a scope set and its authorised request was answered
\* with a 307 that carries a Location.
RedirectedDownload ==
    /\ last.op = "get_report"
    /\ Requests("location") # {}
    /\ LocationAnswer.code = 307
    /\ "Location" \in DOMAIN LocationAnswer.headers
    /\ LocationAnswer.headers.Location # <<>>

\* Exactly two requests, in this order: the request to the report location
\* with the bearer, client-identifier and scope headers, then the request to
\* the redirect target with none of them.
TwoDownloadRequests ==
    /\ Len(DownloadTrace) = 2
    /\ DownloadTrace[1].ev = "http"
    /\ DownloadTrace[1].req =
           [to |-> "location",
            url |-> last.trace[First(Downloads)].location,
            headers |-> [Authorization |-> access_token,
                         ClientId |-> Str(<<"client_id">>),
                         Scope |-> profile_id]]
    /\ profile_id # None
    /\ DownloadTrace[2].ev = "http"
    /\ DownloadTrace[2].req =
           [to |-> "storage",
            url |-> LocationAnswer.headers.Location,
            headers |-> [Authorization |-> None,
                         ClientId |-> None,
                         Scope |-> None]]

\* C15 as stated: a download whose authorised request is answered with a 307
\* carrying a Location sends exactly the two requests and returns an envelope
\* with success true, status SUCCESS and the decoded payload as data.
C15_AlwaysSuccessEnvelope ==
    RedirectedDownload
        => /\ TwoDownloadRequests
           /\ last.out.kind = "envelope"
           /\ last.out.value.success
           /\ last.out.value.response =
                  Json([status |-> <<"SUCCESS">>, data |-> DownloadTrace[2].resp.doc])

\* C15, amended: such a download sends exactly the two requests; when the
\* redirect target answers 2xx with a gzip-compressed JSON payload the envelope
\* has success true, the status code, status SUCCESS and the decoded payload
\* as data; when the target answers with an HTTP error the envelope has
\* success false with the code and reason phrase of that answer.
C15_RedirectedDownload ==
    RedirectedDownload
        => /\ TwoDownloadRequests
           /\ LET g == DownloadTrace[2].resp
              IN /\ (IsSuccessStatus(g.code) /\ g.gzip)
                     => last.out = Return([success |-> TRUE,
                                           code |-> g.code,
                                           response |-> Json([status |-> <<"SUCCESS">>,
                                                              data |-> g.doc])])
                 /\ ~IsSuccessStatus(g.code)
                     => last.out = Return([success |-> FALSE,
                                           code |-> g.code,
                                           response |-> Str(g.msg)])

C15_Witness ==
    /\ RedirectedDownload
    /\ last.pre.profile_id = Str(<<"7">>)
    /\ DownloadTrace[2].resp.gzip
    /\ last.out.kind = "envelope"
    /\ last.out.value.success
    /\ last.out.value.response.v.data = [rows |-> <<"r">>]

\* C16: whatever the earlier calls did, also when one of them spent its retry
\* and still failed, an operation started with an access token present whose
\* first resource request is answered 401 "Authentication failed" enters
\* token refresh once and sends the resource request twice; and no operation
\* sends more than two resource requests.
C16_RetryBudgetPerCall ==
    /\ (/\ retry_spent
        /\ last.op \in DirectOperations
        /\ last.pre.access_token # None
        /\ FirstAnswerRecoverable)
           => /\ Cardinality(Refreshes) = 1
              /\ Cardinality(Requests("api")) = 2
    /\ last.op \in ResourceOperations => Cardinality(Requests("api")) <= 2

\* The refreshes of the latest call that succeeded: token exchanges answered
\* 2xx with an access_token field.
SucceededRefreshes ==
    {j \in Requests("token") :
        /\ IsSuccessStatus(last.trace[j].resp.code)
        /\ "access_token" \in DOMAIN last.trace[j].resp.body}

Last(S) == CHOOSE i \in S : \A j \in S : j <= i

\* The access token stored in the session when the latest call reached
\* position i of its trace: the token of the latest refresh that succeeded
\* before i; without one, the token the call started with, URL-decoded once a
\* token exchange has been made.
StoredTokenAt(i) ==
    LET done == {j \in SucceededRefreshes : j < i}
    IN IF done # {}
       THEN Str(last.trace[Last(done)].resp.body.access_token)
       ELSE IF \E j \in Requests("token") : j < i
       THEN Str(unquote(last.pre.access_token.v))
       ELSE last.pre.access_token

\* C17: every resource request carries in its Authorization header the
\* access token stored in the session when it is sent, so the request re-sent
\* after a refresh that succeeded with T carries T; the token a call leaves
\* stored is the one later calls start with; and an operation enters token
\* refresh only when it starts with the access token absent or its first
\* resource request is answered with the recoverable 401.
C17_AuthorizationIsStoredToken ==
    /\ \A i \in Requests("api") :
           last.trace[i].req.headers.Authorization = StoredTokenAt(i)
    /\ last.op \in ResourceOperations \cup {"do_refresh_token"}
           => access_token = StoredTokenAt(Len(last.trace) + 1)
    /\ last.op = "none" => access_token = last.pre.access_token
    /\ (last.op \in ResourceOperations /\ Refreshes # {})
           => last.pre.access_token = None \/ FirstAnswerRecoverable

C17_Witness ==
    /\ last.op = "resource"
    /\ first_refresh # None
    /\ Cardinality(Requests("api")) = 2
    /\ Cardinality(SucceededRefreshes) = 1
    /\ last.pre.access_token = Str(<<"A", "%", "7", "C">>)
    /\ \E i \in Requests("api") :
           last.trace[i].req.headers.Authorization = Str(<<"T", "%", "7", "C">>)
    /\ access_token = Str(<<"T", "%", "7", "C">>)

\* C18: when the refresh triggered by a recoverable 401 fails (empty refresh
\* token, HTTP error, or no access_token field in the answer), the operation
\* still sends the resource request a second time, with the access token it
\* started with, and returns the envelope of the second answer.
C18_FailedRefreshStillRetries ==
    (/\ last.op \in DirectOperations
     /\ last.pre.access_token # None
     /\ FirstAnswerRecoverable
     /\ SucceededRefreshes = {})
        => /\ Cardinality(Refreshes) = 1
           /\ Cardinality(Requests("api")) = 2
           /\ \A i \in Requests("api") :
                  last.trace[i].req.headers.Authorization = last.pre.access_token
           /\ access_token = last.pre.access_token
           /\ LET final == last.trace[Len(last.trace)]
              IN /\ final.ev = "http"
                 /\ final.req.to \in {"api", "redirect"}
                 /\ last.out.kind = "envelope"
                 /\ last.out.value.code = final.resp.code

\* The session the latest call started on, on a client in whose process no
\* download has installed an opener.
NeverDownloaded == [last.pre EXCEPT !.opener = "default"]

\* C19: a resource operation or token refresh made after a download exchanges
\* the same requests and answers, and ends in the same outcome, as the same
\* call would on a client that never performed a download.
C19_DownloadLeavesTransportAlone ==
    /\ last.op = "resource"
           => \E r \in _operation(NeverDownloaded, "sp/campaigns",
                                  last.args.params, last.args.method, TRUE) :
                  r.m.trace = last.trace /\ r.out = last.out
    /\ last.op = "do_refresh_token"
           => \E r \in do_refresh_token(NeverDownloaded) :
                  r.m.trace = last.trace /\ r.out = last.out

\* C20: once the client has made its first refresh, every later refresh
\* submits the refresh token the first one submitted, and the stored refresh
\* token stays what the first refresh left.
C20_RefreshTokenDecodedOnce ==
    /\ \A i, j \in Requests("token") :
           last.trace[i].req.refresh_token = last.trace[j].req.refresh_token
    /\ first_refresh # None
           => /\ refresh_token = first_refresh
              /\ \A i \in Requests("token") :
                     last.trace[i].req.refresh_token = first_refresh

====
